---- MODULE Spec2Model ----
(***************************************************************************)
(* Model of URLDownloader_v2 (src/url_downloader.py): the progress log,    *)
(* the reconciliation of the pending list against it, the worker pool of   *)
(* batch_download_sites with its thread-local error counters, and the      *)
(* download_all_sites loop.                                                *)
(***************************************************************************)
EXTENDS Integers, Sequences, FiniteSets, TLC

VARIABLES
    in_urls,            \* url_list argument of the constructor
    in_names,           \* output_name_list argument ("None" or a list)
    err_tolerance_num,  \* constructor argument
    custom_img_saver,   \* constructor argument: whether a custom sink is supplied
    log_file_exists,    \* whether the data folder and downloaded.log exist
    log,                \* lines of <local_output_path>/downloaded.log
    targets,            \* (url, path) pairs built by the last construction
    url_list,           \* self.url_list
    output_path_list,   \* self.output_path_list
    url_cnter,          \* self.url_cnter
    files,              \* paths under <local_output_path>/data that were written
    stored,             \* per url: bodies stored, by the file writer or the sink
    mainpc,             \* position of the main thread
    call,               \* the call running on the main thread and its batch_size
    ret,                \* completion of the last call on the main thread
    budget,             \* GETs the calls still to come may issue
    batch,              \* the (url, path) pairs handed to executor.map
    next_task,          \* index of the next work item of the executor's queue
    results,            \* per work item: the future's result
    stores,             \* per work item: its response and the stores of its body
    out_of_order,       \* whether a work item of this batch ended before an earlier one
    responses,          \* responses received since construction
    log_lock,           \* URLDownloader_v1._log_lock: its holder, or "free"
    log_writers,        \* threads that have downloaded.log open for append
    main_err_cntr,      \* thread_local.err_cntr of the main thread
    err_cnter,          \* self.err_cnter, the counter URLDownloader_v1 shares
    wpc,                \* per worker thread: position in download_site
    wtask,              \* per worker thread: index of the work item it runs
    wreg,               \* per worker thread: the value of url_cnter it loaded
    err_cntr,           \* per worker thread: thread_local.err_cntr
    pauses,             \* per worker thread: number of time.sleep(stop_interval) entered
    hist,               \* per worker thread: the responses it received in this batch
    fetched,            \* per target: GETs issued since construction or since the last call began
    appended            \* number of log lines written by the running batch call

cfgvars == <<in_urls, in_names, err_tolerance_num, custom_img_saver>>
objvars == <<targets, url_list, output_path_list>>
poolvars == <<batch, next_task, results, stores>>
logvars == <<log_lock, log_writers, main_err_cntr, err_cnter>>
workervars == <<wpc, wtask, wreg, err_cntr, pauses, hist>>

vars == <<in_urls, in_names, err_tolerance_num, custom_img_saver,
          log_file_exists, log, targets, url_list,
          output_path_list, url_cnter, files, stored, mainpc, call, ret,
          budget,
          batch, next_task, results, stores, out_of_order, responses,
          log_lock, log_writers, main_err_cntr, err_cnter, wpc, wtask, wreg, err_cntr,
          pauses, hist, fetched, appended>>

----------------------------------------------------------------------------
(* Bounds *)
MaxTargets == 3     \* longest url_list handed to the constructor
MaxLog == 2         \* longest log found in the output directory at start
MaxFetches == 4     \* GETs the explored calls may issue in total
BreakerTargets == 4 \* targets of the batch that exercises the error breaker

Workers == {"w1", "w2"}     \* the threads of the pool (num_thread of them)

DefaultBatchAll == -1       \* batch_download_sites(batch_size=-1)
DefaultBatchSize == 1024    \* download_all_sites(batch_size=1024)
BatchSizes == {DefaultBatchAll, 1, DefaultBatchSize}

(* A URL is the pair <<netloc, basename of its path>>. *)
URLS == { <<"x", "a">>, <<"y", "a">> }

(* the urls above and one whose path has no basename *)
HostUrls == URLS \cup { <<"a", "">> }

NameOf(i) == <<"name", i>>

NoNames == [none |-> TRUE, list |-> <<>>]
NamesFor(n) == [none |-> FALSE, list |-> [i \in 1..n |-> NameOf(i)]]

(* truth value of the output_name_list argument *)
Truthy(names) == ~names.none /\ names.list # <<>>

Marker == [url |-> <<"#", "#">>, tag |-> "batch above"]

LogLine(url, tag) == [url |-> url, tag |-> tag]

InitialLines == { LogLine(u, t) : u \in URLS, t \in {"o", "x"} } \cup {Marker}

SeqsUpTo(S, n) == UNION { [1..k -> S] : k \in 0..n }

----------------------------------------------------------------------------
(* Helpers *)
RECURSIVE CountIn(_, _)
CountIn(x, s) ==
    IF s = <<>> THEN 0
    ELSE (IF Head(s) = x THEN 1 ELSE 0) + CountIn(x, Tail(s))

Zip(us, ps) == [i \in 1..Len(us) |-> <<us[i], ps[i]>>]

(* line.split("\t")[0] for line in f if "batch above" not in line *)
RECURSIVE LoggedUrls(_)
LoggedUrls(lines) ==
    IF lines = <<>> THEN <<>>
    ELSE IF Head(lines).tag = "batch above" THEN LoggedUrls(Tail(lines))
    ELSE <<Head(lines).url>> \o LoggedUrls(Tail(lines))

(* a set of the logged urls in place of their counts *)
CounterOfPresence(s) ==
    [u \in { s[i] : i \in 1..Len(s) } |-> 1]

(* collections.Counter over the logged urls: only keys with count > 0 *)
CounterOf(s) ==
    [u \in { s[i] : i \in 1..Len(s) } |-> CountIn(u, s)]

(* The loop of update_downloading_status over zip(url_list, path_list). *)
RECURSIVE ReconcileLoop(_, _, _)
ReconcileLoop(pairs, downloaded_url, tmp) ==
    IF pairs = <<>> THEN tmp
    ELSE LET url == Head(pairs)[1] IN
         IF url \in DOMAIN downloaded_url
         THEN LET dec == [downloaded_url EXCEPT ![url] = @ - 1]
                  nxt == IF dec[url] = 0
                         THEN [u \in (DOMAIN dec) \ {url} |-> dec[u]]
                         ELSE dec
              IN ReconcileLoop(Tail(pairs), nxt, tmp)
         ELSE ReconcileLoop(Tail(pairs), downloaded_url, Append(tmp, Head(pairs)))

(* a reconciliation that tests membership in the log instead of counting *)
update_downloading_status_by_membership(urls, paths, lines) ==
    LET logged == LoggedUrls(lines)
        pairs == Zip(urls, paths)
    IN SelectSeq(pairs, LAMBDA p : CountIn(p[1], logged) = 0)

update_downloading_status(urls, paths, lines) ==
    ReconcileLoop(Zip(urls, paths), CounterOf(LoggedUrls(lines)), <<>>)

Firsts(tmp) == [i \in 1..Len(tmp) |-> tmp[i][1]]

(* the paths of tmp stored in the reverse of their order *)
SecondsReversed(tmp) == [i \in 1..Len(tmp) |-> tmp[Len(tmp) + 1 - i][2]]

(* self.output_path_list = [i[1] for i in tmp] *)
Seconds(tmp) == [i \in 1..Len(tmp) |-> tmp[i][2]]

(* get_outpath_from_url: basename of the path, or the host *)
get_outpath_from_url(url) ==
    <<"data", IF url[2] # "" THEN url[2] ELSE url[1]>>

(* list(set(url_list)): the distinct urls in some order *)
SetOrders(us) ==
    LET S == { us[i] : i \in 1..Len(us) }
    IN { s \in [1..Cardinality(S) -> S] : { s[i] : i \in 1..Len(s) } = S }

----------------------------------------------------------------------------
(* how the last call on the main thread ended, with its return value *)
Ret(kind) == <<kind, 0>>

NoCall == [op |-> "none", batch_size |-> 0]

(* the state of a pool whose threads are gone and whose results are dropped *)
NoPool ==
    /\ batch' = <<>>
    /\ next_task' = 1
    /\ results' = <<>>
    /\ stores' = <<>>
    /\ wtask' = [w \in Workers |-> 0]
    /\ wreg' = [w \in Workers |-> 0]
    /\ err_cntr' = [w \in Workers |-> 0]
    /\ pauses' = [w \in Workers |-> 0]
    /\ hist' = [w \in Workers |-> <<>>]
    /\ UNCHANGED wpc

(* a process start, apart from the constructor arguments and the log found *)
InitRest ==
    /\ log_file_exists = (log # <<>>)
    /\ stores = <<>>
    /\ out_of_order = FALSE
    /\ responses = 0
    /\ log_lock = "free"
    /\ log_writers = {}
    /\ main_err_cntr = 0
    /\ err_cnter = 0
    /\ targets = <<>>
    /\ url_list = <<>>
    /\ output_path_list = <<>>
    /\ url_cnter = 0
    /\ files = {}
    /\ stored = [u \in HostUrls |-> 0]
    /\ call = NoCall
    /\ ret = Ret("none")
    /\ budget = MaxFetches
    /\ batch = <<>>
    /\ next_task = 1
    /\ results = <<>>
    /\ wpc = [w \in Workers |-> "idle"]
    /\ wtask = [w \in Workers |-> 0]
    /\ wreg = [w \in Workers |-> 0]
    /\ err_cntr = [w \in Workers |-> 0]
    /\ pauses = [w \in Workers |-> 0]
    /\ hist = [w \in Workers |-> <<>>]
    /\ fetched = <<>>
    /\ appended = 0

InitWith(url_lists, named, tolerances, logs) ==
    /\ in_urls \in url_lists
    /\ in_names \in { IF b THEN NamesFor(Len(in_urls)) ELSE NoNames : b \in named }
    /\ err_tolerance_num \in tolerances
    /\ custom_img_saver = FALSE
    /\ log \in logs
    /\ mainpc = "new"
    /\ InitRest

(* a fresh output directory: the constructor creates an empty log *)
Init == InitWith(SeqsUpTo(URLS, MaxTargets), BOOLEAN, {1, 2}, {<<>>})

(* an output directory left by earlier runs *)
InitResume ==
    InitWith(SeqsUpTo(URLS, MaxTargets), BOOLEAN, {1, 2}, SeqsUpTo(InitialLines, MaxLog))

(* a fresh output directory, explicit output names, err_tolerance_num = 2 *)
(* and a batch long enough for one thread to fail three times in a row    *)
(* while the other one works                                              *)
AlternatingUrls(n) ==
    [i \in 1..n |-> IF i % 2 = 1 THEN <<"x", "a">> ELSE <<"y", "a">>]

(* a fresh output directory and an output_name_list of any length, the    *)
(* empty list included                                                    *)
InitConfig ==
    /\ in_urls \in SeqsUpTo(URLS, MaxTargets)
    /\ in_names \in {NoNames} \cup { NamesFor(n) : n \in 0..MaxTargets }
    /\ err_tolerance_num = 1
    /\ custom_img_saver = FALSE
    /\ log = <<>>
    /\ mainpc = "new"
    /\ InitRest

(* a fresh output directory and no output names: the paths are derived    *)
(* from the urls, one of which has no basename in its path                *)
InitPaths == InitWith(SeqsUpTo(HostUrls, MaxTargets - 1), {FALSE}, {1}, {<<>>})

(* a fresh output directory handed to either class: URLDownloader_v2     *)
(* ("new") or URLDownloader_v1 ("v1_new"), with explicit output names and *)
(* up to one target per thread of the pool                                *)
InitLog ==
    /\ in_urls \in { AlternatingUrls(k) : k \in 1..Cardinality(Workers) }
    /\ in_names = NamesFor(Len(in_urls))
    /\ err_tolerance_num = 1
    /\ custom_img_saver = FALSE
    /\ log = <<>>
    /\ mainpc \in {"new", "v1_new"}
    /\ InitRest

(* a fresh output directory, explicit output names, with and without a    *)
(* custom_img_saver                                                        *)
InitSink ==
    /\ in_urls \in SeqsUpTo(URLS, MaxTargets - 1)
    /\ in_names = NamesFor(Len(in_urls))
    /\ err_tolerance_num = 1
    /\ custom_img_saver \in BOOLEAN
    /\ log = <<>>
    /\ mainpc = "new"
    /\ InitRest

InitBreaker == InitWith({AlternatingUrls(BreakerTargets)}, {TRUE}, {2}, {<<>>})

----------------------------------------------------------------------------
(* Main thread *)

(* URLDownloader_v2.__init__ *)
(* the assert of line 341 is reached only with a truthy output_name_list   *)
Construct ==
    /\ mainpc \in {"new", "idle"}
    /\ IF Truthy(in_names) /\ Len(in_urls) # Len(in_names.list)
       THEN /\ ret' = Ret("AssertionError")
            /\ UNCHANGED <<objvars, fetched, url_cnter, mainpc, log_file_exists,
                           responses>>
       ELSE /\ \E us \in (IF Truthy(in_names) THEN {in_urls} ELSE SetOrders(in_urls)) :
                 LET ps == IF Truthy(in_names)
                           THEN [i \in 1..Len(in_names.list) |->
                                    <<"data", in_names.list[i]>>]
                           ELSE [i \in 1..Len(us) |-> get_outpath_from_url(us[i])]
                     tmp == update_downloading_status(us, ps, log)
                 IN /\ targets' = Zip(us, ps)
                    /\ url_list' = Firsts(tmp)
                    /\ output_path_list' = Seconds(tmp)
                    /\ fetched' = [i \in 1..Len(us) |-> 0]
            /\ url_cnter' = 0
            /\ responses' = 0
            /\ log_file_exists' = TRUE
            /\ mainpc' = "idle"
            /\ ret' = Ret("constructed")
    /\ UNCHANGED <<cfgvars, out_of_order, logvars, log, files, stored, call, budget,
                   poolvars, workervars, appended>>

(* a direct call of update_downloading_status *)
UpdateStatus ==
    /\ mainpc = "idle"
    /\ LET tmp == update_downloading_status(url_list, output_path_list, log)
       IN /\ url_list' = Firsts(tmp)
          /\ output_path_list' = Seconds(tmp)
    /\ ret' = Ret("updated")
    /\ UNCHANGED <<cfgvars, log_file_exists, out_of_order, responses, logvars,
                   log, targets, url_cnter, files, stored, mainpc, call, budget,
                   poolvars, workervars, fetched, appended>>

(* get_num_urls_needed: reconciles, then returns len(self.url_list) *)
GetNumUrlsNeeded ==
    /\ mainpc = "idle"
    /\ LET tmp == update_downloading_status(url_list, output_path_list, log)
       IN /\ url_list' = Firsts(tmp)
          /\ output_path_list' = Seconds(tmp)
          /\ ret' = <<"num", Len(tmp)>>
    /\ UNCHANGED <<cfgvars, log_file_exists, out_of_order, responses, logvars,
                   log, targets, url_cnter, files, stored, mainpc, call, budget,
                   poolvars, workervars, fetched, appended>>

(* a work item that has no response yet, has stored nothing and has an    *)
(* empty print_to_log_file                                                 *)
NoStore == [resp |-> "none", file |-> 0, sink |-> 0, records |-> <<>>]

(* batch_download_sites up to the submission of the work items: num is    *)
(* bound only when batch_size == -1, any other batch_size reads an unbound *)
(* local and raises UnboundLocalError.                                     *)
EnterBatch(batch_size, op) ==
    IF batch_size = DefaultBatchAll
    THEN LET num == Len(url_list) IN
         /\ num <= budget
         /\ budget' = budget - num
         /\ batch' = Zip(SubSeq(url_list, 1, num), SubSeq(output_path_list, 1, num))
         /\ next_task' = 1
         /\ results' = [i \in 1..num |-> "none"]
         /\ stores' = [i \in 1..num |-> NoStore]
         /\ out_of_order' = FALSE
         /\ mainpc' = "pool"
         /\ call' = [op |-> op, batch_size |-> batch_size]
         /\ ret' = Ret("running")
         /\ appended' = 0
         \* the executor starts fresh threads: no thread_local attribute is set
         /\ err_cntr' = [w \in Workers |-> 0]
         /\ pauses' = [w \in Workers |-> 0]
         /\ hist' = [w \in Workers |-> <<>>]
         /\ UNCHANGED <<wpc, wtask, wreg>>
    ELSE /\ mainpc' = "idle"
         /\ call' = NoCall
         /\ ret' = Ret("UnboundLocalError")
         /\ appended' = 0
         /\ UNCHANGED <<budget, poolvars, workervars, out_of_order>>

BatchDownloadSites ==
    /\ mainpc = "idle"
    /\ \E batch_size \in BatchSizes : EnterBatch(batch_size, "batch")
    /\ fetched' = [i \in 1..Len(targets) |-> 0]
    /\ UNCHANGED <<cfgvars, log_file_exists, responses, logvars, log, objvars,
                   url_cnter, files, stored>>

DownloadAllSites ==
    /\ mainpc = "idle"
    /\ Len(url_list) <= budget
    /\ \E batch_size \in BatchSizes :
          call' = [op |-> "all", batch_size |-> batch_size]
    /\ mainpc' = "loop"
    /\ ret' = Ret("running")
    /\ appended' = 0
    /\ fetched' = [i \in 1..Len(targets) |-> 0]
    /\ UNCHANGED <<cfgvars, log_file_exists, out_of_order, responses, logvars,
                   log, objvars, url_cnter, files, stored, budget, poolvars,
                   workervars>>

(* while len(self.url_list) > 0: self.batch_download_sites(batch_size) *)
LoopTest ==
    /\ mainpc = "loop"
    /\ IF Len(url_list) > 0
       THEN EnterBatch(call.batch_size, "all")
       ELSE /\ mainpc' = "idle"
            /\ call' = NoCall
            /\ ret' = Ret("returned")
            /\ UNCHANGED <<budget, poolvars, workervars, appended, out_of_order>>
    /\ UNCHANGED <<cfgvars, log_file_exists, responses, logvars, log, objvars,
                   url_cnter, files, stored, fetched>>

(* a join that waits for the queue to empty, not for the threads *)
PoolDrainedNoWait == next_task > Len(batch)

PoolDrained ==
    /\ next_task > Len(batch)
    /\ \A w \in Workers : wpc[w] = "idle"

(* leaving the with-block joins the pool; list(results) then re-raises the *)
(* first exception a work item ended with                                  *)
CollectResults ==
    /\ mainpc = "pool"
    /\ PoolDrained
    /\ IF \E i \in 1..Len(results) : results[i] = "exc"
       THEN /\ mainpc' = "idle"
            /\ call' = NoCall
            /\ ret' = Ret("RequestException")
            /\ NoPool
       ELSE /\ mainpc' = "flush"
            /\ UNCHANGED <<call, ret, poolvars, workervars>>
    /\ UNCHANGED <<cfgvars, log_file_exists, out_of_order, responses, logvars,
                   log, objvars, url_cnter, files, stored, budget, fetched,
                   appended>>

(* the records of the batch, the last work item first *)
BatchLinesReversed ==
    [i \in 1..Len(batch) |->
        LogLine(batch[Len(batch) + 1 - i][1], results[Len(batch) + 1 - i])]

(* for print_to_log_file, _ in results: executor.map yields the results in *)
(* the order of submission                                                 *)
BatchLines == [i \in 1..Len(batch) |-> LogLine(batch[i][1], results[i])]

(* the log append of the batch, then self.update_downloading_status() *)
FlushBatch ==
    /\ mainpc = "flush"
    /\ log' = log \o BatchLines
    /\ appended' = appended + Len(batch)
    /\ LET tmp == update_downloading_status(url_list, output_path_list, log')
       IN /\ url_list' = Firsts(tmp)
          /\ output_path_list' = Seconds(tmp)
    /\ IF call.op = "all"
       THEN /\ mainpc' = "loop"
            /\ UNCHANGED <<call, ret>>
       ELSE /\ mainpc' = "idle"
            /\ call' = NoCall
            /\ ret' = Ret("returned")
    /\ NoPool
    /\ UNCHANGED <<cfgvars, log_file_exists, out_of_order, responses, logvars,
                   targets, url_cnter, files, stored, budget, fetched>>

----------------------------------------------------------------------------
(* Worker threads of the pool, each running download_site(url, outpath) *)

(* thread_local.err_cntr, read as 0 by a thread that has not set it *)
increment_thread_local_err_cntr(cntr) == cntr + 1

(* a reset that leaves the counter as it is *)
keep_thread_local_err_cntr(cntr) == cntr

set_to_zero_thread_local_err_cntr(cntr) == 0

(* a breaker that trips on the failure that brings the counter to the      *)
(* tolerance                                                               *)
BreakerTripsOnReach(cntr) == cntr + 1 >= err_tolerance_num

(* if get_thread_local_err_cntr() >= self.err_tolerance_num *)
BreakerTrips(cntr) == cntr >= err_tolerance_num

TargetIndex(pair) == CHOOSE i \in 1..Len(targets) : targets[i] = pair

(* a work item ends with its result; ghost: it overtook an earlier item *)
Finish(w, tag) ==
    /\ results' = [results EXCEPT ![wtask[w]] = tag]
    /\ out_of_order' = (out_of_order \/ \E j \in 1..(wtask[w] - 1) : results[j] = "none")

(* a thread takes the next work item and issues session.get *)
TakeTask(w) ==
    /\ mainpc = "pool"
    /\ wpc[w] = "idle"
    /\ next_task <= Len(batch)
    /\ wtask' = [wtask EXCEPT ![w] = next_task]
    /\ next_task' = next_task + 1
    /\ wpc' = [wpc EXCEPT ![w] = "get"]
    /\ fetched' = [fetched EXCEPT ![TargetIndex(batch[next_task])] = @ + 1]
    /\ UNCHANGED <<cfgvars, log_file_exists, logvars, log, objvars, out_of_order, responses, url_cnter, files, stored, mainpc,
                   call, ret, budget, batch, results, stores, wreg, err_cntr,
                   pauses, hist, appended>>

(* session.get ends: a truthy response, a falsy response, or an exception  *)
(* (timeout, connection error); with a response the thread loads url_cnter *)
GetResponse(w) ==
    /\ wpc[w] = "get"
    /\ \E r \in {"ok", "bad", "exc"} :
         /\ hist' = [hist EXCEPT ![w] = Append(@, r)]
         /\ stores' = [stores EXCEPT ![wtask[w]].resp = r]
         /\ IF r = "exc"
            THEN /\ Finish(w, "exc")
                 /\ wpc' = [wpc EXCEPT ![w] = "idle"]
                 /\ UNCHANGED <<wreg, responses>>
            ELSE /\ wreg' = [wreg EXCEPT ![w] = url_cnter]
                 /\ responses' = responses + 1
                 /\ wpc' = [wpc EXCEPT ![w] = IF r = "ok" THEN "ok_inc" ELSE "bad_inc"]
                 /\ UNCHANGED <<results, out_of_order>>
    /\ UNCHANGED <<cfgvars, log_file_exists, logvars, log, objvars, url_cnter, files, stored, mainpc, call, ret, budget, batch,
                   next_task, wtask, err_cntr, pauses, fetched, appended>>

(* a success branch that buffers the "o" line and stores no body *)
CountSuccessRecordOnly(w) ==
    /\ wpc[w] = "ok_inc"
    /\ url_cnter' = wreg[w] + 1
    /\ stores' = [stores EXCEPT ![wtask[w]].records = Append(@, "o")]
    /\ Finish(w, "o")
    /\ err_cntr' = [err_cntr EXCEPT ![w] = set_to_zero_thread_local_err_cntr(@)]
    /\ wpc' = [wpc EXCEPT ![w] = "idle"]
    /\ UNCHANGED <<cfgvars, log_file_exists, logvars, log, objvars, responses,
                   files, stored, mainpc, call, ret, budget, batch, next_task,
                   wtask, wreg, pauses, hist, fetched, appended>>

(* truthy response: self.url_cnter += 1 stores the incremented value *)
CountSuccess(w) ==
    /\ wpc[w] = "ok_inc"
    /\ url_cnter' = wreg[w] + 1
    /\ wpc' = [wpc EXCEPT ![w] = "store"]
    /\ UNCHANGED <<cfgvars, log_file_exists, logvars, log, objvars, out_of_order, responses, files, stored, mainpc, call, ret,
                   budget, poolvars, wtask, wreg, err_cntr, pauses, hist, fetched,
                   appended>>

(* a success branch that writes outpath whether or not a sink is supplied *)
StoreBodyBoth(w) ==
    /\ wpc[w] = "store"
    /\ stores' = [stores EXCEPT ![wtask[w]].sink = @ + (IF custom_img_saver THEN 1 ELSE 0),
                                ![wtask[w]].file = @ + 1,
                                ![wtask[w]].records = Append(@, "o")]
    /\ files' = files \cup {batch[wtask[w]][2]}
    /\ stored' = [stored EXCEPT ![batch[wtask[w]][1]] = @ + 1]
    /\ Finish(w, "o")
    /\ err_cntr' = [err_cntr EXCEPT ![w] = set_to_zero_thread_local_err_cntr(@)]
    /\ wpc' = [wpc EXCEPT ![w] = "idle"]
    /\ UNCHANGED <<cfgvars, log_file_exists, logvars, log, objvars, responses, url_cnter, mainpc, call, ret, budget,
                   batch, next_task, wtask, wreg, pauses, hist, fetched, appended>>

(* the body goes to the custom sink if one is supplied, else to outpath;   *)
(* the "o" line is buffered and the thread's error counter is set to zero  *)
StoreBody(w) ==
    /\ wpc[w] = "store"
    /\ IF custom_img_saver
       THEN /\ stores' = [stores EXCEPT ![wtask[w]].sink = @ + 1,
                                        ![wtask[w]].records = Append(@, "o")]
            /\ UNCHANGED files
       ELSE /\ stores' = [stores EXCEPT ![wtask[w]].file = @ + 1,
                                        ![wtask[w]].records = Append(@, "o")]
            /\ files' = files \cup {batch[wtask[w]][2]}
    /\ stored' = [stored EXCEPT ![batch[wtask[w]][1]] = @ + 1]
    /\ Finish(w, "o")
    /\ err_cntr' = [err_cntr EXCEPT ![w] = set_to_zero_thread_local_err_cntr(@)]
    /\ wpc' = [wpc EXCEPT ![w] = "idle"]
    /\ UNCHANGED <<cfgvars, log_file_exists, logvars, log, objvars, responses, url_cnter, mainpc, call, ret, budget,
                   batch, next_task, wtask, wreg, pauses, hist, fetched, appended>>

(* the failure branch over one error counter shared by all threads *)
CountFailureShared(w) ==
    /\ wpc[w] = "bad_inc"
    /\ url_cnter' = wreg[w] + 1
    /\ IF BreakerTrips(err_cntr[w])
       THEN /\ wpc' = [wpc EXCEPT ![w] = "cooling"]
            /\ pauses' = [pauses EXCEPT ![w] = @ + 1]
            /\ UNCHANGED <<results, stores, out_of_order, err_cntr>>
       ELSE /\ err_cntr' = [v \in Workers |->
                              increment_thread_local_err_cntr(err_cntr[w])]
            /\ stores' = [stores EXCEPT ![wtask[w]].records = Append(@, "x")]
            /\ Finish(w, "x")
            /\ wpc' = [wpc EXCEPT ![w] = "idle"]
            /\ UNCHANGED pauses
    /\ UNCHANGED <<cfgvars, log_file_exists, logvars, log, objvars, responses, files, stored, mainpc, call, ret,
                   budget, batch, next_task, wtask, wreg, hist, fetched,
                   appended>>

(* falsy response: self.url_cnter += 1, then the breaker test; below the   *)
(* tolerance the counter is incremented and the "x" line is buffered       *)
CountFailure(w) ==
    /\ wpc[w] = "bad_inc"
    /\ url_cnter' = wreg[w] + 1
    /\ IF BreakerTrips(err_cntr[w])
       THEN /\ wpc' = [wpc EXCEPT ![w] = "cooling"]
            /\ pauses' = [pauses EXCEPT ![w] = @ + 1]
            /\ UNCHANGED <<results, stores, out_of_order, err_cntr>>
       ELSE /\ err_cntr' = [err_cntr EXCEPT ![w] =
                              increment_thread_local_err_cntr(@)]
            /\ stores' = [stores EXCEPT ![wtask[w]].records = Append(@, "x")]
            /\ Finish(w, "x")
            /\ wpc' = [wpc EXCEPT ![w] = "idle"]
            /\ UNCHANGED pauses
    /\ UNCHANGED <<cfgvars, log_file_exists, logvars, log, objvars, responses, files, stored, mainpc, call, ret,
                   budget, batch, next_task, wtask, wreg, hist, fetched,
                   appended>>

(* time.sleep(stop_interval) ends: counter set to zero, then incremented *)
EndCooldown(w) ==
    /\ wpc[w] = "cooling"
    /\ err_cntr' = [err_cntr EXCEPT ![w] =
                      increment_thread_local_err_cntr(
                          set_to_zero_thread_local_err_cntr(@))]
    /\ stores' = [stores EXCEPT ![wtask[w]].records = Append(@, "x")]
    /\ Finish(w, "x")
    /\ wpc' = [wpc EXCEPT ![w] = "idle"]
    /\ UNCHANGED <<cfgvars, log_file_exists, logvars, log, objvars, responses, url_cnter, files, stored, mainpc, call, ret,
                   budget, batch, next_task, wtask, wreg, pauses, hist,
                   fetched, appended>>

WorkerStep(w) ==
    \/ TakeTask(w)
    \/ GetResponse(w)
    \/ CountSuccess(w)
    \/ StoreBody(w)
    \/ CountFailure(w)
    \/ EndCooldown(w)

----------------------------------------------------------------------------
(* download_site(url, outpath, log_flag=True) called on the main thread *)

(* the call up to the opening of the log: the GET, the counters, the body; *)
(* the call's print_to_log_file is kept in batch and results               *)
DirectFetch ==
    /\ mainpc = "idle"
    /\ budget >= 1
    /\ \E i \in 1..Len(url_list), r \in {"ok", "bad", "exc"} :
         LET url == url_list[i]
             outpath == output_path_list[i]
         IN /\ fetched' = [fetched EXCEPT ![TargetIndex(<<url, outpath>>)] = @ + 1]
            /\ IF r = "exc"
               THEN /\ ret' = Ret("RequestException")
                    /\ UNCHANGED <<mainpc, url_cnter, responses, files, stored, main_err_cntr,
                                   batch, results, log_writers>>
               ELSE /\ url_cnter' = url_cnter + 1
                    /\ responses' = responses + 1
                    /\ files' = IF r = "ok" /\ ~custom_img_saver
                                THEN files \cup {outpath} ELSE files
                    /\ stored' = IF r = "ok"
                                 THEN [stored EXCEPT ![url] = @ + 1] ELSE stored
                    /\ main_err_cntr' =
                          IF r = "ok"
                          THEN set_to_zero_thread_local_err_cntr(main_err_cntr)
                          ELSE IF BreakerTrips(main_err_cntr)
                          THEN increment_thread_local_err_cntr(
                                   set_to_zero_thread_local_err_cntr(main_err_cntr))
                          ELSE increment_thread_local_err_cntr(main_err_cntr)
                    /\ batch' = << <<url, outpath>> >>
                    /\ results' = << IF r = "ok" THEN "o" ELSE "x" >>
                    /\ log_writers' = log_writers \cup {"main"}
                    /\ mainpc' = "direct_log"
                    /\ ret' = Ret("running")
    /\ budget' = budget - 1
    /\ UNCHANGED <<cfgvars, log_file_exists, out_of_order, log_lock, err_cnter,
                   log, objvars, call, next_task, stores, workervars, appended>>

(* the with-block of line 473: the line is written and the file closed *)
DirectAppend ==
    /\ mainpc = "direct_log"
    /\ log' = Append(log, LogLine(batch[1][1], results[1]))
    /\ log_writers' = log_writers \ {"main"}
    /\ mainpc' = "idle"
    /\ ret' = Ret("returned")
    /\ NoPool
    /\ UNCHANGED <<cfgvars, log_file_exists, out_of_order, responses, log_lock,
                   main_err_cntr, err_cnter, objvars, url_cnter, files, stored, call,
                   budget, fetched, appended>>

----------------------------------------------------------------------------
(* URLDownloader_v1 *)

(* the keys of {url: oname for url, oname in zip(url_list, outname_list)} *)
RECURSIVE DictKeys(_)
DictKeys(us) ==
    IF us = <<>> THEN <<>>
    ELSE LET front == DictKeys(SubSeq(us, 1, Len(us) - 1))
             u == us[Len(us)]
         IN IF CountIn(u, front) > 0 THEN front ELSE Append(front, u)

(* the value the dict keeps for a key: the one zipped with its last copy *)
DictValue(us, names, u) ==
    names[CHOOSE i \in 1..Len(us) :
             us[i] = u /\ \A j \in (i + 1)..Len(us) : us[j] # u]

(* v1 reads every line of the log: it writes no batch marker *)
v1_update_downloading_status(urls, paths, lines) ==
    ReconcileLoop(Zip(urls, paths),
                  CounterOf([i \in 1..Len(lines) |-> lines[i].url]), <<>>)

(* os.path.join(out_path, fname) *)
v1_get_outpath_from_url(url) ==
    <<"out", IF url[2] # "" THEN url[2] ELSE url[1]>>

(* URLDownloader_v1.__init__ *)
V1Construct ==
    /\ mainpc \in {"v1_new", "v1_idle"}
    /\ IF Truthy(in_names) /\ Len(in_urls) # Len(in_names.list)
       THEN /\ ret' = Ret("AssertionError")
            /\ UNCHANGED <<objvars, fetched, url_cnter, err_cnter, mainpc,
                           log_file_exists, responses>>
       ELSE /\ \E us \in (IF Truthy(in_names) THEN {DictKeys(in_urls)}
                          ELSE SetOrders(in_urls)) :
                 LET ps == IF Truthy(in_names)
                           THEN [i \in 1..Len(us) |->
                                    <<"out", DictValue(in_urls, in_names.list, us[i])>>]
                           ELSE [i \in 1..Len(us) |-> v1_get_outpath_from_url(us[i])]
                     tmp == v1_update_downloading_status(us, ps, log)
                 IN /\ targets' = Zip(us, ps)
                    /\ url_list' = Firsts(tmp)
                    /\ output_path_list' = Seconds(tmp)
                    /\ fetched' = [i \in 1..Len(us) |-> 0]
            /\ url_cnter' = 0
            /\ err_cnter' = 0
            /\ responses' = 0
            /\ log_file_exists' = TRUE
            /\ mainpc' = "v1_idle"
            /\ ret' = Ret("constructed")
    /\ UNCHANGED <<cfgvars, out_of_order, log_lock, log_writers, main_err_cntr,
                   log, files, stored, call, budget, poolvars, workervars, appended>>

(* the submission of executor.map(self.download_site, urls, paths) *)
V1Submit(num, op) ==
    /\ mainpc = "v1_idle"
    /\ num <= budget
    /\ budget' = budget - num
    /\ batch' = Zip(SubSeq(url_list, 1, num), SubSeq(output_path_list, 1, num))
    /\ next_task' = 1
    /\ mainpc' = "v1_pool"
    /\ call' = [op |-> op, batch_size |-> num]
    /\ ret' = Ret("running")
    /\ UNCHANGED <<cfgvars, log_file_exists, out_of_order, responses, logvars,
                   log, objvars, url_cnter, files, stored, results, stores, workervars,
                   fetched, appended>>

(* v1 download_all_sites: the whole pending list, no reconciliation after *)
V1DownloadAllSites == V1Submit(Len(url_list), "v1_all")

(* v1 batch_download_sites(num): the slice [:num] *)
V1BatchDownloadSites ==
    \E num \in 0..MaxTargets : V1Submit(IF num <= Len(url_list) THEN num
                                        ELSE Len(url_list), "v1_batch")

(* the with-block joins the pool; batch_download_sites then reconciles *)
V1Join ==
    /\ mainpc = "v1_pool"
    /\ PoolDrained
    /\ IF call.op = "v1_batch"
       THEN LET tmp == v1_update_downloading_status(url_list, output_path_list, log)
            IN /\ url_list' = Firsts(tmp)
               /\ output_path_list' = Seconds(tmp)
       ELSE UNCHANGED <<url_list, output_path_list>>
    /\ mainpc' = "v1_idle"
    /\ call' = NoCall
    /\ ret' = Ret("returned")
    /\ NoPool
    /\ UNCHANGED <<cfgvars, log_file_exists, out_of_order, responses, logvars,
                   log, targets, url_cnter, files, stored, budget, fetched, appended>>

(* v1 download_site, run by the threads of the pool *)
Last(s) == s[Len(s)]

V1Take(w) ==
    /\ mainpc = "v1_pool"
    /\ wpc[w] = "idle"
    /\ next_task <= Len(batch)
    /\ wtask' = [wtask EXCEPT ![w] = next_task]
    /\ next_task' = next_task + 1
    /\ wpc' = [wpc EXCEPT ![w] = "v1_get"]
    /\ fetched' = [fetched EXCEPT ![TargetIndex(batch[next_task])] = @ + 1]
    /\ UNCHANGED <<cfgvars, log_file_exists, out_of_order, responses, logvars,
                   log, objvars, url_cnter, files, stored, mainpc, call, ret, budget,
                   batch, results, stores, wreg, err_cntr, pauses, hist,
                   appended>>

(* session.get ends; an exception ends the work item, its future is never  *)
(* read; with a response the thread loads url_cnter                        *)
V1Get(w) ==
    /\ wpc[w] = "v1_get"
    /\ \E r \in {"ok", "bad", "exc"} :
         /\ hist' = [hist EXCEPT ![w] = Append(@, r)]
         /\ IF r = "exc"
            THEN /\ wpc' = [wpc EXCEPT ![w] = "idle"]
                 /\ UNCHANGED <<wreg, responses>>
            ELSE /\ wreg' = [wreg EXCEPT ![w] = url_cnter]
                 /\ responses' = responses + 1
                 /\ wpc' = [wpc EXCEPT ![w] =
                              IF r = "ok" THEN "v1_ok_inc" ELSE "v1_bad_inc"]
    /\ UNCHANGED <<cfgvars, log_file_exists, out_of_order, logvars, log,
                   objvars, url_cnter, files, stored, mainpc, call, ret, budget,
                   poolvars, wtask, err_cntr, pauses, fetched, appended>>

(* truthy response: url_cnter is stored and the body written to outpath *)
V1CountSuccess(w) ==
    /\ wpc[w] = "v1_ok_inc"
    /\ url_cnter' = wreg[w] + 1
    /\ files' = files \cup {batch[wtask[w]][2]}
    /\ stored' = [stored EXCEPT ![batch[wtask[w]][1]] = @ + 1]
    /\ wpc' = [wpc EXCEPT ![w] = "v1_want_log"]
    /\ UNCHANGED <<cfgvars, log_file_exists, out_of_order, responses, logvars,
                   log, objvars, mainpc, call, ret, budget, poolvars, wtask,
                   wreg, err_cntr, pauses, hist, fetched, appended>>

(* falsy response: url_cnter is stored *)
V1CountFailure(w) ==
    /\ wpc[w] = "v1_bad_inc"
    /\ url_cnter' = wreg[w] + 1
    /\ wpc' = [wpc EXCEPT ![w] = "v1_errs"]
    /\ UNCHANGED <<cfgvars, log_file_exists, out_of_order, responses, logvars,
                   log, objvars, files, stored, mainpc, call, ret, budget, poolvars,
                   wtask, wreg, err_cntr, pauses, hist, fetched, appended>>

(* with self._errs_cnter_lock: the breaker test, the sleep and the update  *)
(* of the shared counter, all inside the lock                              *)
V1ErrsFailure(w) ==
    /\ wpc[w] = "v1_errs"
    /\ IF err_cnter >= err_tolerance_num
       THEN /\ err_cnter' = 0
            /\ pauses' = [pauses EXCEPT ![w] = @ + 1]
       ELSE /\ err_cnter' = err_cnter + 1
            /\ UNCHANGED pauses
    /\ wpc' = [wpc EXCEPT ![w] = "v1_want_log"]
    /\ UNCHANGED <<cfgvars, log_file_exists, out_of_order, responses, log_lock,
                   log_writers, main_err_cntr, log, objvars, url_cnter, files, stored,
                   mainpc, call, ret, budget, poolvars, wtask, wreg, err_cntr,
                   hist, fetched, appended>>

(* a thread that opens the log without taking self._log_lock *)
V1AcquireLogNoLock(w) ==
    /\ wpc[w] = "v1_want_log"
    /\ log_lock' = w
    /\ log_writers' = log_writers \cup {w}
    /\ wpc' = [wpc EXCEPT ![w] = "v1_in_log"]
    /\ UNCHANGED <<cfgvars, log_file_exists, out_of_order, responses,
                   main_err_cntr, err_cnter, log, objvars, url_cnter, files, stored,
                   mainpc, call, ret, budget, poolvars, wtask, wreg, err_cntr,
                   pauses, hist, fetched, appended>>

(* with self._log_lock: the thread blocks until the lock is free, takes it *)
(* and opens the log for append                                            *)
V1AcquireLog(w) ==
    /\ wpc[w] = "v1_want_log"
    /\ log_lock = "free"
    /\ log_lock' = w
    /\ log_writers' = log_writers \cup {w}
    /\ wpc' = [wpc EXCEPT ![w] = "v1_in_log"]
    /\ UNCHANGED <<cfgvars, log_file_exists, out_of_order, responses,
                   main_err_cntr, err_cnter, log, objvars, url_cnter, files, stored,
                   mainpc, call, ret, budget, poolvars, wtask, wreg, err_cntr,
                   pauses, hist, fetched, appended>>

(* the line is written, the file closed and the lock released *)
V1AppendLog(w) ==
    /\ wpc[w] = "v1_in_log"
    /\ log' = Append(log, LogLine(batch[wtask[w]][1],
                                  IF Last(hist[w]) = "ok" THEN "o" ELSE "x"))
    /\ log_writers' = log_writers \ {w}
    /\ log_lock' = "free"
    /\ wpc' = [wpc EXCEPT ![w] = IF Last(hist[w]) = "ok" THEN "v1_reset" ELSE "idle"]
    /\ UNCHANGED <<cfgvars, log_file_exists, out_of_order, responses,
                   main_err_cntr, err_cnter, objvars, url_cnter, files, stored, mainpc,
                   call, ret, budget, poolvars, wtask, wreg, err_cntr, pauses,
                   hist, fetched, appended>>

(* with self._errs_cnter_lock: self.err_cnter = 0 *)
V1ErrsReset(w) ==
    /\ wpc[w] = "v1_reset"
    /\ err_cnter' = 0
    /\ wpc' = [wpc EXCEPT ![w] = "idle"]
    /\ UNCHANGED <<cfgvars, log_file_exists, out_of_order, responses, log_lock,
                   log_writers, main_err_cntr, log, objvars, url_cnter, files, stored,
                   mainpc, call, ret, budget, poolvars, wtask, wreg, err_cntr,
                   pauses, hist, fetched, appended>>

V1WorkerStep(w) ==
    \/ V1Take(w)
    \/ V1Get(w)
    \/ V1CountSuccess(w)
    \/ V1CountFailure(w)
    \/ V1ErrsFailure(w)
    \/ V1AcquireLog(w)
    \/ V1AppendLog(w)
    \/ V1ErrsReset(w)

----------------------------------------------------------------------------
Next ==
    \/ Construct
    \/ UpdateStatus
    \/ GetNumUrlsNeeded
    \/ BatchDownloadSites
    \/ DownloadAllSites
    \/ LoopTest
    \/ CollectResults
    \/ FlushBatch
    \/ \E w \in Workers : WorkerStep(w)

Spec == Init /\ [][Next]_vars

(* construction and status queries over a log left by earlier runs *)
NextReconcile ==
    \/ Construct
    \/ UpdateStatus
    \/ GetNumUrlsNeeded

SpecReconcile == InitResume /\ [][NextReconcile]_vars

SpecBreaker == InitBreaker /\ [][Next]_vars

SpecConfig == InitConfig /\ [][Next]_vars

SpecPaths == InitPaths /\ [][Next]_vars

SpecSink == InitSink /\ [][Next]_vars

(* either class, and download_site called directly with log_flag=True *)
NextLog ==
    \/ Next
    \/ DirectFetch
    \/ DirectAppend
    \/ V1Construct
    \/ V1DownloadAllSites
    \/ V1BatchDownloadSites
    \/ V1Join
    \/ \E w \in Workers : V1WorkerStep(w)

SpecLog == InitLog /\ [][NextLog]_vars
----------------------------------------------------------------------------
(* Reconciliation as a multiset subtraction by URL *)

Pending == Zip(url_list, output_path_list)

(* number of targets with the url of target i among the first i targets *)
Rank(T, i) == Cardinality({ j \in 1..i : T[j][1] = T[i][1] })

RECURSIVE KeepFrom(_, _, _)
KeepFrom(T, i, logged) ==
    IF i > Len(T) THEN <<>>
    ELSE (IF Rank(T, i) > CountIn(T[i][1], logged) THEN <<T[i]>> ELSE <<>>)
         \o KeepFrom(T, i + 1, logged)

(* T with, per url, its first min(count in the log, count in T) targets removed *)
MultisetSubtract(T, lines) == KeepFrom(T, 1, LoggedUrls(lines))

Min(a, b) == IF a <= b THEN a ELSE b

RECURSIVE SumMatched(_, _, _)
SumMatched(S, T, logged) ==
    IF S = {} THEN 0
    ELSE LET u == CHOOSE x \in S : TRUE
         IN Min(CountIn(u, logged), CountIn(u, Firsts(T)))
            + SumMatched(S \ {u}, T, logged)

(* log records matching a target by URL, capped per URL at its targets *)
Matched(T, lines) == SumMatched(URLS, T, LoggedUrls(lines))

SameUrlTwice ==
    /\ Len(targets) = 2
    /\ targets[1][1] = targets[2][1]
    /\ targets[1][2] # targets[2][2]
    /\ CountIn(targets[1][1], LoggedUrls(log)) = 1

(* C1: right after construction the pending list is the target list minus, *)
(* per URL, its first min(#log records, #targets) targets; two targets of  *)
(* one URL with one log record of it leave exactly the second one pending. *)
C1_ConstructionSubtractsMultiset ==
    ret = Ret("constructed") =>
        /\ Pending = MultisetSubtract(targets, log)
        /\ SameUrlTwice => Pending = <<targets[2]>>

C1_Witness ==
    /\ ret = Ret("constructed")
    /\ SameUrlTwice
    /\ Pending = <<targets[2]>>

(* C2: with no log write in between, every further reconciliation and     *)
(* every pending query leaves the pending list as the first reconciliation *)
(* left it: the targets minus the log records, counted per URL.            *)
C2_ReconciliationIdempotent ==
    mainpc = "idle" =>
        /\ Pending = MultisetSubtract(targets, log)
        /\ Len(url_list) = Len(targets) - Matched(targets, log)
        /\ ret[1] = "num" => ret[2] = Len(MultisetSubtract(targets, log))

----------------------------------------------------------------------------
(* The batch barrier *)

Busy == \E w \in Workers : wpc[w] # "idle"

BatchRecords == [i \in 1..Len(batch) |-> LogLine(batch[i][1], results[i])]

(* the step on which batch_download_sites hands control back *)
EndsBatch == mainpc \in {"pool", "flush"} /\ mainpc' \in {"idle", "loop"}

Raised(r) == r \in {Ret("UnboundLocalError"), Ret("RequestException")}

(* C3: while a worker of the batch is fetching or cooling down, or a work  *)
(* item is still queued, nothing is appended to the log and the pending    *)
(* list is not reconciled; a batch call over K targets returns only with   *)
(* K records, one per submitted target in order, appended to the log.      *)
C3_BatchBarrier ==
    /\ [](Busy \/ next_task <= Len(batch) => mainpc = "pool" /\ appended = 0)
    /\ [][(Busy \/ next_task <= Len(batch)) =>
             /\ log' = log
             /\ url_list' = url_list
             /\ output_path_list' = output_path_list]_vars
    /\ [][(EndsBatch /\ ~Raised(ret')) =>
             /\ log' = log \o BatchRecords
             /\ appended' = Len(batch)
             /\ \A i \in 1..Len(batch) : results[i] \in {"o", "x"}]_vars

C3_Witness ==
    /\ mainpc = "pool"
    /\ Len(batch) >= 2
    /\ next_task > Len(batch)
    /\ \E w \in Workers : wpc[w] = "cooling"
    /\ \E i \in 1..Len(batch) : results[i] \in {"o", "x"}
    /\ log = <<>>
    /\ appended = 0

(* C4: a fetch that ends in a timeout, a connection error or a failure     *)
(* status leaves an x result for its target, nothing is raised out of the  *)
(* batch call, and every target of the batch has its record.               *)
C4_TransportFailureContained ==
    /\ ret # Ret("RequestException")
    /\ (mainpc = "pool" /\ PoolDrained) =>
          \A i \in 1..Len(batch) : results[i] \in {"o", "x"}

----------------------------------------------------------------------------
(* The per-thread error breaker *)

AllOf(h, r) == \A i \in 1..Len(h) : h[i] = r

(* C5: a step of one worker leaves the error counter, the pause count and  *)
(* the position of every other worker alone; while one worker is cooling   *)
(* down every other worker with work to do can step; with tolerance 2 a    *)
(* worker that got exactly three failures has paused once and a worker     *)
(* that got only successes has never paused.                               *)
C5_BreakerIsolation ==
    /\ [][\A w, v \in Workers :
            (w # v /\ wpc'[v] # wpc[v] /\ mainpc = "pool" /\ mainpc' = "pool") =>
                /\ err_cntr'[w] = err_cntr[w]
                /\ pauses'[w] = pauses[w]
                /\ wpc'[w] = wpc[w]]_vars
    /\ [](\A w, v \in Workers :
            (w # v /\ wpc[w] = "cooling"
                   /\ (wpc[v] # "idle" \/ next_task <= Len(batch))) =>
                ENABLED WorkerStep(v))
    /\ [](err_tolerance_num = 2 =>
            \A w \in Workers :
                /\ (wpc[w] = "idle" /\ hist[w] = <<"bad", "bad", "bad">>) => pauses[w] = 1
                /\ AllOf(hist[w], "ok") => pauses[w] = 0)

C5_Witness ==
    /\ err_tolerance_num = 2
    /\ \E w, v \in Workers :
          /\ w # v
          /\ wpc[w] = "idle" /\ hist[w] = <<"bad", "bad", "bad">> /\ pauses[w] = 1
          /\ wpc[v] = "idle" /\ hist[v] = <<"ok">> /\ pauses[v] = 0

----------------------------------------------------------------------------
(* Runs and later runs *)

Range(s) == { s[i] : i \in 1..Len(s) }

FailedWithUrl(u) ==
    Cardinality({ j \in 1..Len(batch) : batch[j][1] = u /\ results[j] # "o" })

(* C6: within a download_all_sites run no target is fetched twice, and a   *)
(* target whose fetch failed has, when its batch ends, exactly one x       *)
(* record of its own in the log and is no longer pending.                  *)
C6_FailureConsumesTarget ==
    /\ [](call.op = "all" => \A i \in 1..Len(fetched) : fetched[i] <= 1)
    /\ [][(call.op = "all" /\ EndsBatch) =>
            \A i \in 1..Len(batch) :
                results[i] # "o" =>
                    /\ CountIn(LogLine(batch[i][1], "x"), log')
                         = CountIn(LogLine(batch[i][1], "x"), log)
                           + FailedWithUrl(batch[i][1])
                    /\ batch[i] \notin Range(Zip(url_list', output_path_list'))]_vars

(* C7: a construction over a log that holds x records only for a URL has   *)
(* that URL pending.                                                       *)
C7_FailedUrlPendingAgain ==
    ret = Ret("constructed") =>
        \A i \in 1..Len(targets) :
            (/\ CountIn(LogLine(targets[i][1], "x"), log) > 0
             /\ CountIn(LogLine(targets[i][1], "o"), log) = 0)
                => targets[i][1] \in Range(url_list)

(* the log of a fresh directory after a run whose fetches all succeeded *)
FullOkRun == log # <<>> /\ \A i \in 1..Len(log) : log[i].tag = "o"

(* C8: after a full run of successes the log has one o record per target,  *)
(* nothing is pending, get_num_urls_needed returns 0, and no construction  *)
(* or call that follows issues a GET.                                      *)
C8_ResumeRoundTrip ==
    /\ []((FullOkRun /\ mainpc = "idle") =>
            /\ Len(log) = Len(targets)
            /\ \A u \in URLS :
                 CountIn(LogLine(u, "o"), log) = CountIn(u, Firsts(targets))
            /\ url_list = <<>>
            /\ ret[1] = "num" => ret[2] = 0)
    /\ [][FullOkRun => \A w \in Workers : wpc'[w] = "get" => wpc[w] = "get"]_vars

C8_Witness ==
    /\ FullOkRun
    /\ ret = Ret("constructed")
    /\ Len(targets) >= 2
    /\ url_list = <<>>
    /\ \A i \in 1..Len(fetched) : fetched[i] = 0

(* C9: a download_all_sites call in which every fetch gets a response ends *)
(* by returning with nothing pending, whatever batch_size it was given,    *)
(* and every batch of the loop shortens the pending list.                  *)
C9_OrchestratorTerminates ==
    /\ [][(call.op = "all" /\ mainpc # "idle" /\ mainpc' = "idle"
             /\ ret' # Ret("RequestException")) =>
                (ret' = Ret("returned") /\ url_list' = <<>>)]_vars
    /\ [][(call.op = "all" /\ mainpc = "flush") =>
                Len(url_list') < Len(url_list)]_vars

(* C10: a batch call with a positive batch_size submits the first          *)
(* min(batch_size, |pending|) pending targets, batch_size -1 submits all.  *)
C10_BoundedBatch ==
    /\ ret # Ret("UnboundLocalError")
    /\ mainpc = "pool" =>
          batch = SubSeq(Pending, 1,
                         IF call.batch_size = DefaultBatchAll
                         THEN Len(Pending)
                         ELSE Min(call.batch_size, Len(Pending)))

----------------------------------------------------------------------------
(* Construction *)

NamesMismatch == ~in_names.none /\ Len(in_names.list) # Len(in_urls)

(* C11: with an output-name list whose length differs from the URL list's, *)
(* the empty list included, construction raises: no downloader comes to    *)
(* exist, no folder or log file is created and nothing is fetched.         *)
C11_MismatchedNamesRaise ==
    NamesMismatch =>
        /\ mainpc = "new"
        /\ ~log_file_exists
        /\ ret \in {Ret("none"), Ret("AssertionError")}
        /\ responses = 0

FirstBatch == mainpc = "pool" /\ budget + Len(batch) = MaxFetches

(* C12: the targets of a downloader have pairwise distinct paths, two      *)
(* workers never store to the same path at once, and when the first batch  *)
(* has drained there are as many data files as successful targets.         *)
C12_OneFilePerTarget ==
    /\ \A i, j \in 1..Len(targets) : i # j => targets[i][2] # targets[j][2]
    /\ \A w, v \in Workers :
          (w # v /\ wpc[w] = "store" /\ wpc[v] = "store") =>
              batch[wtask[w]][2] # batch[wtask[v]][2]
    /\ (FirstBatch /\ PoolDrained) =>
          Cardinality(files) = Cardinality({ i \in 1..Len(batch) : results[i] = "o" })

(* C13: the progress log never has two writers at once, and every append   *)
(* of a record is made either by the main thread while no worker runs      *)
(* (the batch append and download_site with log_flag of URLDownloader_v2)  *)
(* or by the one thread that holds _log_lock (URLDownloader_v1).           *)
C13_LogAppendSerialized ==
    /\ [](Cardinality(log_writers) <= 1)
    /\ [][log' # log =>
            \/ /\ mainpc \in {"flush", "direct_log"}
               /\ log_writers \subseteq {"main"}
               /\ \A w \in Workers : wpc[w] = "idle"
            \/ /\ mainpc = "v1_pool"
               /\ \E w \in Workers :
                     /\ log_lock = w
                     /\ log_writers = {w}
                     /\ wpc[w] = "v1_in_log"]_vars

(* a v1 thread is inside the critical section while another waits for it *)
C13_Witness ==
    \E w, v \in Workers :
        /\ w # v
        /\ wpc[w] = "v1_in_log"
        /\ log_lock = w
        /\ wpc[v] = "v1_want_log"


(* a is b with some of its elements left out, the others in b's order *)
RECURSIVE IsSubseq(_, _)
IsSubseq(a, b) ==
    IF a = <<>> THEN TRUE
    ELSE IF b = <<>> THEN FALSE
    ELSE IF Head(a) = Head(b) THEN IsSubseq(Tail(a), Tail(b))
    ELSE IsSubseq(a, Tail(b))

(* C14: the url list and the path list have the same length, the pending   *)
(* pairs are pairs built at construction in the order of the target list,  *)
(* and on one downloader object the pending list only loses elements.      *)
C14_PendingSetInvariant ==
    /\ [](/\ Len(url_list) = Len(output_path_list)
          /\ \A i \in 1..Len(url_list) :
                \E j \in 1..Len(targets) :
                    targets[j] = <<url_list[i], output_path_list[i]>>
          /\ IsSubseq(Pending, targets))
    /\ [][ret' # Ret("constructed") =>
            /\ targets' = targets
            /\ IsSubseq(Pending', Pending)]_vars

(* reconciliation has dropped the first target and kept a later one *)
C14_Witness ==
    /\ mainpc = "idle"
    /\ Len(targets) >= 2
    /\ Len(Pending) >= 1
    /\ Len(Pending) < Len(targets)
    /\ Pending[1] # targets[1]
    /\ Pending[1][1] # targets[1][1]


(* C15 as stated: with tolerance n the n-th failure in a row on a worker   *)
(* is the one that pauses it.                                              *)
C15_PauseOnNthFailure ==
    \A w \in Workers :
        (wpc[w] = "idle" /\ AllOf(hist[w], "bad") /\ Len(hist[w]) = err_tolerance_num)
            => pauses[w] = 1

(* C15, amended: a failure pauses the worker exactly when the counter it   *)
(* finds is already at the tolerance or above; on a worker whose counter   *)
(* is zero, n failures in a row raise no pause and failure n + 1 does.     *)
C15_PauseOnFailureAfterTolerance ==
    /\ [][\A w \in Workers :
            (wpc[w] = "bad_inc" /\ wpc'[w] # "bad_inc") =>
                /\ (wpc'[w] = "cooling") = (err_cntr[w] >= err_tolerance_num)
                /\ (wpc'[w] = "idle") = (err_cntr[w] < err_tolerance_num)]_vars
    /\ [](\A w \in Workers :
            (wpc[w] = "idle" /\ AllOf(hist[w], "bad")) =>
                /\ Len(hist[w]) <= err_tolerance_num => pauses[w] = 0
                /\ Len(hist[w]) = err_tolerance_num + 1 => pauses[w] = 1)

(* a worker after the failure that follows n failures in a row *)
C15_Witness ==
    \E w \in Workers :
        /\ wpc[w] = "idle"
        /\ AllOf(hist[w], "bad")
        /\ Len(hist[w]) = err_tolerance_num + 1
        /\ pauses[w] = 1


(* C16: when the cooldown pause of a worker ends its failure counter is    *)
(* zero, so the failure that raised the pause does not count toward the    *)
(* next one.                                                               *)
C16_CounterZeroAfterCooldown ==
    [][\A w \in Workers :
          (wpc[w] = "cooling" /\ wpc'[w] = "idle") => err_cntr'[w] = 0]_vars

(* the responses a worker got since its last success that were failures *)
RECURSIVE BadRun(_)
BadRun(h) ==
    IF h = <<>> \/ Last(h) = "ok" THEN 0
    ELSE (IF Last(h) = "bad" THEN 1 ELSE 0) + BadRun(SubSeq(h, 1, Len(h) - 1))

(* C17: a success leaves the worker's counter at zero, the counter never   *)
(* exceeds the failures the worker got since its last success, and a       *)
(* worker pauses only with more failures than the tolerance behind it      *)
(* since its last success.                                                 *)
C17_ConsecutiveFailuresOnly ==
    /\ [][\A w \in Workers :
            (wpc[w] = "store" /\ wpc'[w] = "idle") => err_cntr'[w] = 0]_vars
    /\ [](\A w \in Workers :
            /\ wpc[w] \notin {"ok_inc", "store"} => err_cntr[w] <= BadRun(hist[w])
            /\ wpc[w] = "cooling" => BadRun(hist[w]) >= err_tolerance_num + 1)

(* failures on both sides of a success, and no pause *)
C17_Witness ==
    \E w \in Workers :
        /\ wpc[w] = "idle"
        /\ hist[w] = <<"bad", "ok", "bad">>
        /\ err_cntr[w] = 1
        /\ pauses[w] = 0


(* C18: a work item that ended on a falsy response has produced the one    *)
(* record x and stored nothing; one that ended on a truthy response has    *)
(* produced the one record o and stored its body once, through the custom  *)
(* sink if one is supplied and to its path otherwise; no work item stores  *)
(* anything before a truthy response.                                      *)
C18_OutcomeMatchesSideEffect ==
    \A i \in 1..Len(stores) :
        /\ stores[i].file + stores[i].sink <= 1
        /\ stores[i].resp # "ok" => stores[i].file + stores[i].sink = 0
        /\ (results[i] # "none" /\ stores[i].resp = "bad") =>
              /\ stores[i].records = <<"x">>
              /\ results[i] = "x"
        /\ (results[i] # "none" /\ stores[i].resp = "ok") =>
              /\ stores[i].records = <<"o">>
              /\ results[i] = "o"
              /\ stores[i].sink = (IF custom_img_saver THEN 1 ELSE 0)
              /\ stores[i].file = (IF custom_img_saver THEN 0 ELSE 1)
        /\ results[i] \in {"none", "exc"} => stores[i].records = <<>>

(* a batch with a sink supplied in which one item succeeded, one failed *)
C18_Witness ==
    /\ custom_img_saver
    /\ mainpc = "pool"
    /\ \E i, j \in 1..Len(stores) :
          /\ results[i] = "o" /\ stores[i].sink = 1 /\ stores[i].file = 0
          /\ results[j] = "x" /\ stores[j].resp = "bad"


(* C19: the append of a batch adds one line per work item, and the i-th    *)
(* line added is about the i-th url of the batch slice, in whatever order  *)
(* the workers took and finished the items.                                *)
C19_BatchLogInSubmissionOrder ==
    [][(mainpc = "flush" /\ mainpc' # "flush") =>
          /\ Len(log') = Len(log) + Len(batch)
          /\ SubSeq(log', 1, Len(log)) = log
          /\ \A i \in 1..Len(batch) :
                /\ log'[Len(log) + i].url = batch[i][1]
                /\ log'[Len(log) + i].tag \in {"o", "x"}]_vars

(* the first batch of a downloader is logged in target order although a    *)
(* later work item ended before an earlier one                             *)
C19_Witness ==
    /\ mainpc = "idle"
    /\ ret = Ret("returned")
    /\ out_of_order
    /\ Len(targets) >= 2
    /\ Len(log) = Len(targets)
    /\ \A i \in 1..Len(log) : log[i].url = targets[i][1]
    /\ log[1].url # log[2].url

(* C20: once a batch has drained, url_cnter equals the number of fetches   *)
(* of this downloader that ended with a response.                          *)
C20_NoLostIncrement ==
    (mainpc = "pool" /\ PoolDrained) => url_cnter = responses


(* the "o" lines of the log about url u *)
SuccessLines(u) ==
    Cardinality({ i \in 1..Len(log) : log[i].url = u /\ log[i].tag = "o" })

(* C21: in a directory whose log started empty, at every point of every    *)
(* call the log holds, for each url, no more "o" lines than bodies have    *)
(* been stored for it: an "o" line is never written ahead of its store.    *)
C21_WriteBeforeLog ==
    \A u \in HostUrls : SuccessLines(u) <= stored[u]

(* a batch has been logged: one url with an "o" line and its one stored    *)
(* body, another with an "x" line and nothing stored                       *)
C21_Witness ==
    /\ mainpc = "idle"
    /\ ret = Ret("returned")
    /\ \E u, v \in HostUrls :
          /\ u # v
          /\ SuccessLines(u) = 1
          /\ stored[u] = 1
          /\ \E i \in 1..Len(log) : log[i] = LogLine(v, "x")
          /\ stored[v] = 0

====
